---- MODULE Spec2Model ----
(***************************************************************************)
(* Model of the two elaboration-support engines of the repository:         *)
(*   - vhdl/scope2.rs    : ScopeData (define / import_def / import_scope)   *)
(*   - svlog/param_env.rs: compute (parameter environment of an instance)   *)
(* The scope engine is the specification ScopeSpec, the parameter engine   *)
(* is ParamSpec.  Both share the diagnostic sink of the session context.   *)
(***************************************************************************)
EXTENDS Integers, Sequences, FiniteSets, TLC

\* ------------------------------------------------------------------------
\* Bounds of the model
\* ------------------------------------------------------------------------
\* Number of scope objects that may be allocated (root() / new()).
MaxScopes == 2
\* Total number of spanned definitions held by all tables of all scopes.
MaxDefs == 2
\* Total number of memberships of all imported-scope sets.
MaxImports == 2
\* Number of parameters a module declares.
MaxParams == 2
\* Number of arguments (positional and named) of an instantiation.
MaxArgs == 2
\* Number of named arguments of an instantiation.
MaxNamed == 1
\* Number of environments the intern table holds.
MaxEnvs == 2

\* ------------------------------------------------------------------------
\* State
\* ------------------------------------------------------------------------
VARIABLES
    scopes,     \* arena of ScopeData; the index is the object's address
    result,     \* value returned by the most recent scope operation
    emitted,    \* diagnostics emitted through emit by the most recent call
    node,       \* the HIR node the context stores under the module id
    envs,       \* the context's intern table; ParamEnv(h) denotes envs[h]
    req,        \* the ParamEnvSource of the most recent compute
    computed,   \* value returned by the most recent compute
    earlier     \* some earlier successful compute: its source and its handle

scopeVars == <<scopes, result>>
paramVars == <<node, envs, req, computed, earlier>>
vars == <<scopes, result, emitted, node, envs, req, computed, earlier>>

\* ResolvableName values used by the callers.
Names == {"foo", "bar"}

\* Source spans carried by the names the callers pass.
Spans == {1, 2}

\* enum Def2: Pkg and Type are unique, Enum is overloadable.
Def2 == {"Pkg", "Type", "Enum"}

\* The `_` arm of the match in define: every variant but Enum.
UniqueDef == Def2 \ {"Enum"}

\* Spanned::new(def, span)
Spanned(def, span) == [value |-> def, span |-> span]

\* HashMap::new(): no key present.  A key that is absent is modelled by the
\* empty vector; the code never stores an empty vector under a key.
EmptyTable == [n \in Names |-> <<>>]

\* Option<&ScopeData>::None
NoParent == 0

\* ScopeData::root()
root == [parent |-> NoParent,
         defs |-> EmptyTable,
         imported_defs |-> EmptyTable,
         imported_scopes |-> {}]

\* ScopeData::new(parent)
new(parent) == [root EXCEPT !.parent = parent]

ScopeIds == 1..Len(scopes)

RECURSIVE SumLen(_, _)
SumLen(table, names) ==
    IF names = {} THEN 0
    ELSE LET n == CHOOSE x \in names : TRUE
         IN Len(table[n]) + SumLen(table, names \ {n})

RECURSIVE SumOver(_, _)
SumOver(f, dom) ==
    IF dom = {} THEN 0
    ELSE LET x == CHOOSE y \in dom : TRUE
         IN f[x] + SumOver(f, dom \ {x})

\* Number of spanned definitions stored in all tables.
TotalDefs ==
    SumOver([s \in ScopeIds |-> SumLen(scopes[s].defs, Names)
                                + SumLen(scopes[s].imported_defs, Names)],
            ScopeIds)

\* Number of memberships of all imported-scope sets.
TotalImports ==
    SumOver([s \in ScopeIds |-> Cardinality(scopes[s].imported_scopes)], ScopeIds)

\* ------------------------------------------------------------------------
\* Diagnostics
\* ------------------------------------------------------------------------
\* DiagBuilder2::note("define `name` as def").span(span)
DefineNote(name, def, span) ==
    [severity |-> "note", msg |-> "define", name |-> name, def |-> def,
     spans |-> <<span>>]

\* DiagBuilder2::error("`name` has already been declared").span(span)
\*     .add_note("Previous declaration was here:").span(prior)
AlreadyDeclared(name, span, prior) ==
    [severity |-> "error", msg |-> "has already been declared", name |-> name,
     spans |-> <<span, prior>>]

Errors(diags) == SelectSeq(diags, LAMBDA d : d.severity = "error")

\* ------------------------------------------------------------------------
\* ScopeData::define
\* ------------------------------------------------------------------------
\* entry(name).or_insert_with(Vec::new).push(sd)
PushFront(table, name, sd) == [table EXCEPT ![name] = <<sd>> \o @]
Push(table, name, sd) == [table EXCEPT ![name] = Append(@, sd)]

\* HashMap::insert(name, vec![sd]): the value stored under the key is
\* replaced; the previous value is what insert returns.
Insert(table, name, sd) == [table EXCEPT ![name] = <<sd>>]

\* The value returned by HashMap::insert: Some(existing) iff non-empty here.
Existing(table, name) == table[name]

\* if let Some(existing) = ins { .. Err(()) } else { Ok(()) }
AlwaysOk(ins) == "Ok"
UniqueResult(ins) == IF ins # <<>> THEN "Err" ELSE "Ok"

\* What the unique arm emits.
UniqueDiags(ins, name, span) ==
    IF ins # <<>>
    THEN <<AlreadyDeclared(name, span, ins[Len(ins)].span)>>
    ELSE <<>>

\* if ctx.has_verbosity(Verbosity::NAMES) { ctx.emit(note) }
NoteAsError(verbose, name, def, span) ==
    IF verbose
    THEN <<[DefineNote(name, def, span) EXCEPT !.severity = "error"]>>
    ELSE <<>>

VerbosityNote(verbose, name, def, span) ==
    IF verbose THEN <<DefineNote(name, def, span)>> ELSE <<>>

define(s, name, span, def, verbose) ==
    /\ s \in ScopeIds
    /\ LET sd  == Spanned(def, span)
           old == scopes[s].defs
           ins == Existing(old, name)
       IN IF def = "Enum"
          THEN /\ scopes' = [scopes EXCEPT ![s].defs = Push(old, name, sd)]
               /\ emitted' = VerbosityNote(verbose, name, def, span)
               /\ result' = "Ok"
          ELSE /\ scopes' = [scopes EXCEPT ![s].defs = Insert(old, name, sd)]
               /\ emitted' = VerbosityNote(verbose, name, def, span)
                             \o UniqueDiags(ins, name, span)
               /\ result' = UniqueResult(ins)
    /\ UNCHANGED paramVars

\* ------------------------------------------------------------------------
\* ScopeData::import_def
\* ------------------------------------------------------------------------
ImportReplace(table, name, sd) == [table EXCEPT ![name] = <<sd>>]
ImportPush(table, name, sd) == [table EXCEPT ![name] = Append(@, sd)]

import_def(s, name, span, def) ==
    /\ s \in ScopeIds
    /\ scopes' = [scopes EXCEPT ![s].imported_defs =
                      ImportPush(@, name, Spanned(def, span))]
    /\ emitted' = <<>>
    /\ result' = "Ok"
    /\ UNCHANGED paramVars

\* ------------------------------------------------------------------------
\* ScopeData::import_scope and the identity of scope references
\* ------------------------------------------------------------------------
\* Equality by the contents of the two scopes' tables.
ContentEq(a, b) ==
    /\ scopes[a].defs = scopes[b].defs
    /\ scopes[a].imported_defs = scopes[b].imported_defs

\* impl PartialEq for &ScopeData: the two references are cast to raw
\* pointers and the addresses are compared.
ScopeEq(a, b) == a = b

\* HashSet::insert under that equality: an element equal to one already in
\* the set is not added.
HashSetInsert(set, x) ==
    IF \E y \in set : ScopeEq(y, x) THEN set ELSE set \cup {x}

\* An import that also records the importer in the imported scope.
import_scope_mutually(s, scope) ==
    /\ s \in ScopeIds
    /\ scope \in ScopeIds
    /\ scopes' = [k \in 1..Len(scopes) |->
                     [scopes[k] EXCEPT !.imported_scopes =
                         IF k = s THEN HashSetInsert(@, scope)
                         ELSE IF k = scope THEN HashSetInsert(@, s)
                         ELSE @]]
    /\ emitted' = <<>>
    /\ result' = "Ok"
    /\ UNCHANGED paramVars

import_scope(s, scope) ==
    /\ s \in ScopeIds
    /\ scope \in ScopeIds
    /\ scopes' = [scopes EXCEPT ![s].imported_scopes = HashSetInsert(@, scope)]
    /\ emitted' = <<>>
    /\ result' = "Ok"
    /\ UNCHANGED paramVars

\* ------------------------------------------------------------------------
\* Allocation of scopes
\* ------------------------------------------------------------------------
\* A caller allocates a child scope in the arena.
NewChild(parent) ==
    /\ parent \in ScopeIds
    /\ scopes' = Append(scopes, new(parent))
    /\ UNCHANGED <<result, emitted>>
    /\ UNCHANGED paramVars

\* ------------------------------------------------------------------------
\* The compilation context as compute uses it
\* ------------------------------------------------------------------------
\* NodeId of the module an instantiation names.
ModuleId == 1

\* NodeIds of the parameter declarations a module can list.
ParamIds == {11, 12, 13, 14}

\* NodeIds of the expressions and types bound by the arguments.
AssignIds == {21, 22}

\* Names a named argument can carry: those of the declarations and one that
\* no declaration has.
ParamNames == {"T", "N", "M", "WIDTH"}

\* cx.ast_of(id): the AST node of a parameter declaration, with its name and
\* kind, or a failure when the context has no AST node for the id.
ast_of(id) ==
    CASE id = 11 -> [tag |-> "TypeParam", name |-> "T"]
      [] id = 12 -> [tag |-> "ValueParam", name |-> "N"]
      [] id = 13 -> [tag |-> "ValueParam", name |-> "M"]
      [] OTHER   -> [tag |-> "Err", name |-> ""]

\* A session that compiles VHDL stores no SystemVerilog node.
NoNode == [tag |-> "None", params |-> <<>>]

\* cx.hir_of(module): the HIR node stored under the id (a module with its
\* params, some other node, or a failure).
hir_of(id) == IF id = ModuleId THEN node ELSE [tag |-> "Err", params |-> <<>>]

\* #[derive(PartialEq, Eq, Hash)] struct ParamEnvData { values, types }:
\* structural equality over both vectors.
ValuesEq(a, b) == a.values = b.values
NeverEq(a, b) == FALSE
DataEq(a, b) == a.values = b.values /\ a.types = b.types

\* Handles whose content equals data.
Interned(table, data) == {h \in 1..Len(table) : DataEq(table[h], data)}

\* cx.intern_param_env(data): the handle of the equal content already in the
\* table, else the handle of a new entry.
InternHandle(table, data) ==
    IF Interned(table, data) # {}
    THEN CHOOSE h \in Interned(table, data) : TRUE
    ELSE Len(table) + 1

InternTable(table, data) ==
    IF Interned(table, data) # {} THEN table ELSE Append(table, data)

\* ------------------------------------------------------------------------
\* param_env::compute
\* ------------------------------------------------------------------------
\* ParamEnvSource::ModuleInst { module, pos, named }
\*   PosParam   = (span, assign_id)
\*   NamedParam = (span, name, assign_id), the name carrying its own span
ModuleInst(module, pos, named) == [module |-> module, pos |-> pos, named |-> named]

NoSource == ModuleInst(0, <<>>, <<>>)

\* "{module} only has {n} parameter(s)" at the argument's span
OnlyHasParams(n, span) ==
    [severity |-> "error", msg |-> "only has parameter(s)", count |-> n,
     name |-> "", spans |-> <<span>>, note |-> <<>>]

\* "no parameter `{name}` in {module}" at the name's span, with the note
\* "declared parameters are ..."
NoParameter(name, span, declared) ==
    [severity |-> "error", msg |-> "no parameter", count |-> 0,
     name |-> name, spans |-> <<span>>, note |-> declared]

Matched(param_id, assign_id) ==
    [ok |-> TRUE, pair |-> <<param_id, assign_id>>, diags |-> <<>>]

\* Same as below, without the call of emit.
UnmatchedSilently(diag) == [ok |-> FALSE, pair |-> <<0, 0>>, diags |-> <<>>]

Unmatched(diag) == [ok |-> FALSE, pair |-> <<0, 0>>, diags |-> <<diag>>]

\* Same, taking the one-based position for a zero-based index.
MatchPosZeroBased(params, index, arg) ==
    IF index < Len(params)
    THEN [ok |-> TRUE, pair |-> <<params[index + 1], arg.id>>, diags |-> <<>>]
    ELSE [ok |-> FALSE, pair |-> <<0, 0>>,
          diags |-> <<OnlyHasParams(Len(params), arg.span)>>]

\* The closure mapped over pos.iter().enumerate().
MatchPos(params, index, arg) ==
    IF index <= Len(params)
    THEN Matched(params[index], arg.id)
    ELSE Unmatched(OnlyHasParams(Len(params), arg.span))

\* Same, collected in the reverse of the declaration order.
DeclaredNamesBackwards(params) ==
    LET known == SelectSeq(params, LAMBDA id : ast_of(id).tag # "Err")
    IN [i \in 1..Len(known) |->
           [name |-> ast_of(known[Len(known) + 1 - i]).name,
            id |-> known[Len(known) + 1 - i]]]

\* names: the (name, id) of every parameter whose AST node resolves
\* (flat_map drops the failures), in declaration order.
DeclaredNames(params) ==
    LET known == SelectSeq(params, LAMBDA id : ast_of(id).tag # "Err")
    IN [i \in 1..Len(known) |-> [name |-> ast_of(known[i]).name, id |-> known[i]]]

\* names.iter().find(|(param_name, _)| param_name == name): the first match.
Find(names, name) ==
    LET hits == {i \in 1..Len(names) : names[i].name = name}
    IN IF hits = {} THEN 0 ELSE CHOOSE i \in hits : \A j \in hits : i <= j

\* The closure mapped over named.iter().
MatchNamed(params, arg) ==
    LET names == DeclaredNames(params)
        at    == Find(names, arg.name)
    IN IF at # 0
       THEN Matched(names[at].id, arg.id)
       ELSE Unmatched(NoParameter(arg.name, arg.name_span,
                                  [i \in 1..Len(names) |-> names[i].name]))

\* Same, stopping at the first failure: nothing after it is examined.
RECURSIVE UntilFirstErr(_)
UntilFirstErr(rs) ==
    IF rs = <<>> THEN <<>>
    ELSE IF ~Head(rs).ok THEN <<Head(rs)>>
    ELSE <<Head(rs)>> \o UntilFirstErr(Tail(rs))

AssociateShort(params, pos, named) ==
    UntilFirstErr([i \in 1..Len(pos) |-> MatchPos(params, i, pos[i])]
                  \o [j \in 1..Len(named) |-> MatchNamed(params, named[j])])

\* pos.iter().enumerate().map(..).chain(named.iter().map(..))
\*     .collect::<Vec<_>>(): every closure runs, positional arguments first.
Associate(params, pos, named) ==
    [i \in 1..Len(pos) |-> MatchPos(params, i, pos[i])]
    \o [j \in 1..Len(named) |-> MatchNamed(params, named[j])]

\* The diagnostics the closures emitted, in the order they ran.
RECURSIVE Diags(_)
Diags(rs) == IF rs = <<>> THEN <<>> ELSE Head(rs).diags \o Diags(Tail(rs))

\* .into_iter().collect::<Result<Vec<_>>>()?
AllOk(rs) == \A i \in 1..Len(rs) : rs[i].ok

Pairs(rs) == [i \in 1..Len(rs) |-> rs[i].pair]

\* The loop splitting type and value parameters; cx.ast_of(param_id)? leaves
\* compute with a failure when a matched parameter has no AST node.
SplitOk(pairs) == \A i \in 1..Len(pairs) : ast_of(pairs[i][1]).tag # "Err"

OfKind(pairs, kind) == SelectSeq(pairs, LAMBDA p : ast_of(p[1]).tag = kind)

RECURSIVE Reverse(_)
Reverse(seq) == IF seq = <<>> THEN <<>> ELSE Reverse(Tail(seq)) \o <<Head(seq)>>

SplitReversed(pairs) ==
    [values |-> Reverse(OfKind(pairs, "ValueParam")),
     types  |-> Reverse(OfKind(pairs, "TypeParam"))]

\* A split that keeps, for each parameter, only its last binding.
RECURSIVE LastWins(_)
LastWins(pairs) ==
    IF pairs = <<>> THEN <<>>
    ELSE IF \E j \in 2..Len(pairs) : pairs[j][1] = Head(pairs)[1]
         THEN LastWins(Tail(pairs))
         ELSE <<Head(pairs)>> \o LastWins(Tail(pairs))

SplitLastWins(pairs) ==
    [values |-> OfKind(LastWins(pairs), "ValueParam"),
     types  |-> OfKind(LastWins(pairs), "TypeParam")]

\* ParamEnvData { types, values }
Split(pairs) ==
    [values |-> OfKind(pairs, "ValueParam"), types |-> OfKind(pairs, "TypeParam")]

\* Values compute can return: Ok(ParamEnv(h)), Err(()), or no return (panic).
Ok(h) == [status |-> "Ok", env |-> h]
Err == [status |-> "Err", env |-> 0]
Panic == [status |-> "Panic", env |-> 0]
NotCalled == [status |-> "None", env |-> 0]

NoCall == [src |-> NoSource, env |-> 0]

\* match cx.hir_of(module)? { HirNode::Module(m) => m, _ => panic!(..) }
AnyNodeIsModule(hir) == TRUE
ExpectedModule(hir) == hir.tag = "Module"

\* A compute that interns the pairs it has before it looks for failures.
ComputeInternsEarly(src, table) ==
    LET hir == hir_of(src.module)
    IN IF hir.tag = "Err"
       THEN [ret |-> Err, diags |-> <<>>, table |-> table]
       ELSE IF ~ExpectedModule(hir)
       THEN [ret |-> Panic, diags |-> <<>>, table |-> table]
       ELSE LET rs == Associate(hir.params, src.pos, src.named)
                data == Split(Pairs(rs))
            IN IF ~AllOk(rs) \/ ~SplitOk(Pairs(rs))
               THEN [ret |-> Err, diags |-> Diags(rs),
                     table |-> InternTable(table, data)]
               ELSE [ret |-> Ok(InternHandle(table, data)),
                     diags |-> Diags(rs),
                     table |-> InternTable(table, data)]

\* What compute returns, emits and interns for a source, given the table.
ComputeOutcome(src, table) ==
    LET hir == hir_of(src.module)
    IN IF hir.tag = "Err"
       THEN [ret |-> Err, diags |-> <<>>, table |-> table]
       ELSE IF ~ExpectedModule(hir)
       THEN [ret |-> Panic, diags |-> <<>>, table |-> table]
       ELSE LET rs == Associate(hir.params, src.pos, src.named)
            IN IF ~AllOk(rs) \/ ~SplitOk(Pairs(rs))
               THEN [ret |-> Err, diags |-> Diags(rs), table |-> table]
               ELSE LET data == Split(Pairs(rs))
                    IN [ret |-> Ok(InternHandle(table, data)),
                        diags |-> Diags(rs),
                        table |-> InternTable(table, data)]

compute(src) ==
    \E out \in {ComputeOutcome(src, envs)} :
       /\ Len(out.table) <= MaxEnvs
       /\ req' = src
       /\ computed' = out.ret
       /\ emitted' = out.diags
       /\ envs' = out.table
       /\ earlier' \in {earlier} \cup
              (IF out.ret.status = "Ok" THEN {[src |-> src, env |-> out.ret.env]}
               ELSE {})
       /\ UNCHANGED <<node, scopeVars>>

\* ------------------------------------------------------------------------
\* Specification of the parameter engine
\* ------------------------------------------------------------------------
SeqsUpTo(S, n) == UNION {[1..k -> S] : k \in 0..n}

\* NodeIds are allocated in source order: a module lists its parameters with
\* increasing ids.
Ascending(seq) == \A i \in 1..Len(seq), j \in 1..Len(seq) : i < j => seq[i] < seq[j]

\* The nodes the context may hold under the module id.
ModuleNodes ==
    {[tag |-> "Module", params |-> ps] :
        ps \in {q \in SeqsUpTo(ParamIds, MaxParams) : Ascending(q)}}
    \cup {[tag |-> "Other", params |-> <<>>], [tag |-> "Err", params |-> <<>>]}

\* Arguments carry the spans of their positions in the source text.
PosParams(ids) == [i \in 1..Len(ids) |-> [span |-> i, id |-> ids[i]]]

NamedParams(k, binds) ==
    [j \in 1..Len(binds) |->
        [span |-> k + j, name |-> binds[j][1], name_span |-> 10 + k + j,
         id |-> binds[j][2]]]

Sources ==
    {ModuleInst(ModuleId, PosParams(ids), NamedParams(Len(ids), binds)) :
        ids \in SeqsUpTo(AssignIds, MaxArgs),
        binds \in SeqsUpTo(ParamNames \X AssignIds, MaxNamed)}

ParamInit ==
    /\ scopes = <<root>>
    /\ result = "None"
    /\ emitted = <<>>
    /\ node \in ModuleNodes
    /\ envs = <<>>
    /\ req = NoSource
    /\ computed = NotCalled
    /\ earlier = NoCall

Compute ==
    /\ computed.status # "Panic"
    /\ \E src \in Sources :
          /\ Len(src.pos) + Len(src.named) <= MaxArgs
          /\ compute(src)

ParamNext == Compute

ParamSpec == ParamInit /\ [][ParamNext]_vars

\* ------------------------------------------------------------------------
\* Specification of the scope engine
\* ------------------------------------------------------------------------
ScopeInit ==
    /\ scopes = <<root>>
    /\ result = "None"
    /\ emitted = <<>>
    /\ node = NoNode
    /\ envs = <<>>
    /\ req = NoSource
    /\ computed = NotCalled
    /\ earlier = NoCall

\* The tables hold fewer definitions than the model's bound.
HasRoom == TotalDefs < MaxDefs

Define ==
    LET room == HasRoom
    IN \E s \in ScopeIds, name \in Names, span \in Spans, def \in Def2,
          verbose \in BOOLEAN :
           /\ room \/ (def \in UniqueDef /\ scopes[s].defs[name] # <<>>)
           /\ define(s, name, span, def, verbose)

ImportDef ==
    /\ HasRoom
    /\ \E s \in ScopeIds, name \in Names, span \in Spans, def \in Def2 :
           import_def(s, name, span, def)

ImportScope ==
    \E s \in ScopeIds, scope \in ScopeIds :
        /\ scope \in scopes[s].imported_scopes \/ TotalImports < MaxImports
        /\ import_scope(s, scope)

New ==
    /\ Len(scopes) < MaxScopes
    /\ \E parent \in ScopeIds : NewChild(parent)

ScopeNext ==
    \/ New
    \/ Define
    \/ ImportDef
    \/ ImportScope

ScopeSpec == ScopeInit /\ [][ScopeNext]_vars

\* ------------------------------------------------------------------------
\* Specification of the parameter engine on requests that may bind one
\* parameter more than once: at most one positional argument, and named
\* arguments that name the first type parameter or the first value parameter.
\* ------------------------------------------------------------------------
OverlapNames == {"T", "N"}

OverlapSources ==
    {ModuleInst(ModuleId, PosParams(ids), NamedParams(Len(ids), binds)) :
        ids \in SeqsUpTo(AssignIds, 1),
        binds \in SeqsUpTo(OverlapNames \X AssignIds, MaxArgs)}

ComputeOverlap ==
    /\ computed.status # "Panic"
    /\ \E src \in OverlapSources :
          /\ Len(src.pos) + Len(src.named) <= MaxArgs
          /\ compute(src)

OverlapNext == ComputeOverlap

OverlapSpec == ParamInit /\ [][OverlapNext]_vars

\* ------------------------------------------------------------------------
\* Specification of a session: the two engines belong to two front-ends and
\* do not depend on each other; a session runs the scope engine on a VHDL
\* unit or the parameter engine on a SystemVerilog unit.
\* ------------------------------------------------------------------------
SessionInit == ScopeInit \/ ParamInit

SessionNext ==
    \/ node = NoNode /\ ScopeNext
    \/ node # NoNode /\ ParamNext

SessionSpec == SessionInit /\ [][SessionNext]_vars

\* ------------------------------------------------------------------------
\* Properties of the scope engine
\* ------------------------------------------------------------------------
\* Some entry of the vector is a package or a type.
HoldsUnique(entry) == \E i \in 1..Len(entry) : entry[i].value \in UniqueDef

\* C1 (as claimed): a define of a package or type under a name whose own-table
\* entry is non-empty fails and leaves that entry as it was before the call.
C1_DuplicateLeavesTableUnchanged ==
    [][\A s \in ScopeIds, name \in Names, span \in Spans, def \in UniqueDef,
          verbose \in BOOLEAN :
           (define(s, name, span, def, verbose) /\ scopes[s].defs[name] # <<>>)
           => /\ result' = "Err"
              /\ scopes'[s].defs[name] = scopes[s].defs[name]]_vars

\* C2 (as claimed): in every reachable state, an own-table entry that holds a
\* package or type definition has exactly one element.
C2_UniqueNameHasOneEntry ==
    \A s \in ScopeIds, n \in Names :
        HoldsUnique(scopes[s].defs[n]) => Len(scopes[s].defs[n]) = 1

\* C3: a define of a package or type succeeds iff the own-table entry of the
\* name was empty; on success the entry is the singleton of the new spanned
\* definition and no error is emitted; on failure exactly one error "has
\* already been declared" is emitted, with the span of the new name and the
\* span of the (last) prior entry.
C3_UniqueDefineResult ==
    [][\A s \in ScopeIds, name \in Names, span \in Spans, def \in UniqueDef,
          verbose \in BOOLEAN :
           define(s, name, span, def, verbose)
           => LET prior == scopes[s].defs[name]
                  errs  == Errors(emitted')
              IN /\ (result' = "Ok") <=> (prior = <<>>)
                 /\ result' \in {"Ok", "Err"}
                 /\ result' = "Ok" =>
                       /\ scopes'[s].defs[name] = <<[value |-> def, span |-> span]>>
                       /\ errs = <<>>
                 /\ result' = "Err" =>
                       /\ Len(errs) = 1
                       /\ errs[1].msg = "has already been declared"
                       /\ errs[1].name = name
                       /\ errs[1].spans = <<span, prior[Len(prior)].span>>]_vars

\* C3 witness: a failed define has reported the new span and a different
\* prior span.
C3_Witness ==
    /\ result = "Err"
    /\ Len(Errors(emitted)) = 1
    /\ Errors(emitted)[1].spans[1] # Errors(emitted)[1].spans[2]

\* C4: a define of an enumeration variant succeeds, emits no error, and
\* appends the new spanned definition after the prior entries of the name,
\* which keep their positions.
C4_OverloadAppends ==
    [][\A s \in ScopeIds, name \in Names, span \in Spans, verbose \in BOOLEAN :
           define(s, name, span, "Enum", verbose)
           => LET prior == scopes[s].defs[name]
                  post  == scopes'[s].defs[name]
              IN /\ result' = "Ok"
                 /\ Errors(emitted') = <<>>
                 /\ Len(post) = Len(prior) + 1
                 /\ \A i \in 1..Len(prior) : post[i] = prior[i]
                 /\ post[Len(post)] = [value |-> "Enum", span |-> span]]_vars

\* C4 witness: two enumeration variants defined under one name, held in the
\* order of their (distinct) spans of declaration.
C4_Witness ==
    /\ result = "Ok"
    /\ \E s \in ScopeIds, n \in Names :
          /\ Len(scopes[s].defs[n]) = 2
          /\ \A i \in 1..2 : scopes[s].defs[n][i].value = "Enum"
          /\ scopes[s].defs[n][1].span # scopes[s].defs[n][2].span

\* C5: import_def succeeds for any name and definition, whatever the own and
\* imported tables hold; the imported entry of the name is its previous
\* content followed by the new spanned definition.
C5_ImportDefAppends ==
    [][\A s \in ScopeIds, name \in Names, span \in Spans, def \in Def2 :
           import_def(s, name, span, def)
           => LET prior == scopes[s].imported_defs[name]
                  post  == scopes'[s].imported_defs[name]
              IN /\ result' = "Ok"
                 /\ Len(post) = Len(prior) + 1
                 /\ \A i \in 1..Len(prior) : post[i] = prior[i]
                 /\ post[Len(post)] = [value |-> def, span |-> span]]_vars

\* C5 witness: a name imported twice, the second import of a unique kind
\* colliding with the first.
C5_Witness ==
    /\ result = "Ok"
    /\ \E s \in ScopeIds, n \in Names :
          /\ Len(scopes[s].imported_defs[n]) = 2
          /\ scopes[s].imported_defs[n][1] # scopes[s].imported_defs[n][2]
          /\ scopes[s].imported_defs[n][2].value \in UniqueDef

\* C6: import_scope succeeds and the imported-scope set is the set of the
\* distinct scope objects imported: a call adds the object when it is not a
\* member and changes nothing when it is, whatever the scopes contain.
C6_ImportScopeIdentity ==
    [][\A s \in ScopeIds, scope \in ScopeIds :
           import_scope(s, scope)
           => LET prior == scopes[s].imported_scopes
                  post  == scopes'[s].imported_scopes
              IN /\ result' = "Ok"
                 /\ post = prior \cup {scope}
                 /\ Cardinality(post) =
                       Cardinality(prior) + (IF scope \in prior THEN 0 ELSE 1)]_vars

\* C6 witness: a set holding two distinct scope objects whose tables are
\* identical.
C6_Witness ==
    /\ result = "Ok"
    /\ \E s \in ScopeIds :
          /\ Cardinality(scopes[s].imported_scopes) = 2
          /\ \E a \in scopes[s].imported_scopes, b \in scopes[s].imported_scopes :
                /\ a # b
                /\ scopes[a].defs = scopes[b].defs
                /\ scopes[a].imported_defs = scopes[b].imported_defs

\* ------------------------------------------------------------------------
\* Properties of the parameter engine
\* ------------------------------------------------------------------------
\* The most recent call was a compute whose module id resolved to a module.
OnModule == req # NoSource /\ node.tag = "Module"

\* Names of the declared parameters (a declaration without AST node has none).
DeclaredNameSet == {ast_of(node.params[i]).name :
                      i \in {k \in 1..Len(node.params) : ast_of(node.params[k]).tag # "Err"}}

\* Spans of the arguments of the request that cannot be matched: positional
\* arguments beyond the declared parameters, named arguments naming none.
UnmatchedPos == {i \in 1..Len(req.pos) : i > Len(node.params)}
UnmatchedNamed == {j \in 1..Len(req.named) : req.named[j].name \notin DeclaredNameSet}

ErrorsAt(span) == {k \in 1..Len(emitted) :
                     emitted[k].severity = "error" /\ emitted[k].spans = <<span>>}

\* C7: compute on a module examines every argument: it has emitted exactly
\* one error for each unmatched argument (positional beyond the parameter
\* count, named with an undeclared name) and no other error, and it returns
\* failure when at least one argument is unmatched.
C7_OneErrorPerUnmatched ==
    OnModule =>
        /\ \A i \in UnmatchedPos : Cardinality(ErrorsAt(req.pos[i].span)) = 1
        /\ \A j \in UnmatchedNamed : Cardinality(ErrorsAt(req.named[j].name_span)) = 1
        /\ Len(Errors(emitted)) = Cardinality(UnmatchedPos) + Cardinality(UnmatchedNamed)
        /\ Cardinality(UnmatchedPos) + Cardinality(UnmatchedNamed) >= 1
              => computed.status = "Err"

\* C7 witness: a failed call with an unmatched positional argument followed
\* by an unmatched named argument, both reported.
C7_Witness ==
    /\ OnModule
    /\ computed.status = "Err"
    /\ UnmatchedPos # {}
    /\ UnmatchedNamed # {}
    /\ Len(Errors(emitted)) = 2

\* The parameter an argument is matched with.
ParamAt(k) ==
    IF k <= Len(req.pos)
    THEN node.params[k]
    ELSE CHOOSE id \in ParamIds :
            /\ \E i \in 1..Len(node.params) : node.params[i] = id
            /\ ast_of(id).tag # "Err"
            /\ ast_of(id).name = req.named[k - Len(req.pos)].name

AssignAt(k) ==
    IF k <= Len(req.pos) THEN req.pos[k].id ELSE req.named[k - Len(req.pos)].id

NumArgs == Len(req.pos) + Len(req.named)

AllMatched == OnModule /\ UnmatchedPos = {} /\ UnmatchedNamed = {}

\* Arguments, in the order positional-then-named, bound to a parameter of kind.
ArgsOfKind(kind) == {k \in 1..NumArgs : ast_of(ParamAt(k)).tag = kind}

\* seq lists, in increasing argument order, the pairs of the arguments in ks.
ListsInOrder(seq, ks) ==
    /\ Len(seq) = Cardinality(ks)
    /\ \A n \in 1..Len(seq) :
          \E k \in ks : /\ Cardinality({m \in ks : m < k}) = n - 1
                        /\ seq[n] = <<ParamAt(k), AssignAt(k)>>

ContentOf(src) == Split(Pairs(Associate(node.params, src.pos, src.named)))

\* C9: a successful compute returns the handle an earlier successful
\* compute returned, whatever was computed in between, when the two have the
\* same source, and more generally when their contents are equal.
C9_InterningIdempotent ==
    (computed.status = "Ok" /\ earlier # NoCall) =>
        /\ earlier.src = req => earlier.env = computed.env
        /\ ContentOf(earlier.src) = ContentOf(req) => earlier.env = computed.env

\* C9 witness: the source of the first interned environment is computed
\* again after a second environment was interned.
C9_Witness ==
    /\ computed.status = "Ok"
    /\ earlier # NoCall
    /\ earlier.src = req
    /\ Len(envs) = 2
    /\ computed.env = 1

\* The two sources name the same module and differ in the bound node id of
\* exactly one argument.
OneBoundIdDiffers(a, b) ==
    /\ a.module = b.module
    /\ Len(a.pos) = Len(b.pos)
    /\ Len(a.named) = Len(b.named)
    /\ \A i \in 1..Len(a.pos) : a.pos[i].span = b.pos[i].span
    /\ \A j \in 1..Len(a.named) :
          /\ a.named[j].span = b.named[j].span
          /\ a.named[j].name = b.named[j].name
          /\ a.named[j].name_span = b.named[j].name_span
    /\ Cardinality({i \in 1..Len(a.pos) : a.pos[i].id # b.pos[i].id})
         + Cardinality({j \in 1..Len(a.named) : a.named[j].id # b.named[j].id}) = 1

\* C10: two successful computes on the same module whose argument lists
\* differ only in the bound node id of one argument return different handles.
C10_InterningDistinct ==
    (computed.status = "Ok" /\ earlier # NoCall /\ OneBoundIdDiffers(earlier.src, req))
        => earlier.env # computed.env

\* C10 witness: such a pair of calls, the differing argument being a named one.
C10_Witness ==
    /\ computed.status = "Ok"
    /\ earlier # NoCall
    /\ OneBoundIdDiffers(earlier.src, req)
    /\ Len(req.named) = 1
    /\ req.named[1].id # earlier.src.named[1].id

\* Errors "only has N parameter(s)" of the most recent call.
OnlyHasErrors ==
    {k \in 1..Len(emitted) :
        emitted[k].severity = "error" /\ emitted[k].msg = "only has parameter(s)"}

\* The pairs of the environment the most recent call returned.
BoundPairs ==
    {envs[computed.env].types[n] : n \in 1..Len(envs[computed.env].types)}
    \cup {envs[computed.env].values[n] : n \in 1..Len(envs[computed.env].values)}

\* C11: positional matching is by ordinal position: argument i is paired with
\* the parameter declared at position i when i is within the N declared
\* parameters, else it produces one "only has N parameter(s)" error at its
\* span; P positional arguments give max(0, P - N) such errors, and compute
\* fails when P > N.
C11_PositionalByOrdinal ==
    OnModule =>
        LET N == Len(node.params)
            P == Len(req.pos)
        IN /\ Cardinality(OnlyHasErrors) = (IF P > N THEN P - N ELSE 0)
           /\ \A i \in 1..P :
                 i > N => Cardinality({k \in OnlyHasErrors :
                                          /\ emitted[k].spans = <<req.pos[i].span>>
                                          /\ emitted[k].count = N}) = 1
           /\ P > N => computed.status = "Err"
           /\ computed.status = "Ok" =>
                 \A i \in 1..P : <<node.params[i], req.pos[i].id>> \in BoundPairs

\* C11 witness: a module with one parameter instantiated with two positional
\* arguments: one error, compute fails.
C11_Witness ==
    /\ OnModule
    /\ Len(node.params) = 1
    /\ Len(req.pos) = 2
    /\ computed.status = "Err"
    /\ Cardinality(OnlyHasErrors) = 1

\* Positions of the declarations whose AST node (hence name) resolves.
NamedDecls == {i \in 1..Len(node.params) : ast_of(node.params[i]).tag # "Err"}

\* note lists the declared names in declaration order.
ListsDeclaredNames(note) ==
    /\ Len(note) = Cardinality(NamedDecls)
    /\ \A n \in 1..Len(note) :
          \E i \in NamedDecls :
              /\ Cardinality({m \in NamedDecls : m < i}) = n - 1
              /\ note[n] = ast_of(node.params[i]).name

\* C12: a named argument whose name no declared parameter has makes compute
\* fail with one error "no parameter `name`" whose note lists the declared
\* names in declaration order; a named argument with a declared name is paired
\* with that parameter and emits nothing.
C12_UnknownNamedArgument ==
    OnModule =>
        \A j \in 1..Len(req.named) :
            LET arg  == req.named[j]
                errs == ErrorsAt(arg.name_span)
            IN IF arg.name \notin DeclaredNameSet
               THEN /\ computed.status = "Err"
                    /\ Cardinality(errs) = 1
                    /\ \A k \in errs :
                          /\ emitted[k].msg = "no parameter"
                          /\ emitted[k].name = arg.name
                          /\ ListsDeclaredNames(emitted[k].note)
               ELSE /\ errs = {}
                    /\ computed.status = "Ok" =>
                          <<ParamAt(Len(req.pos) + j), arg.id>> \in BoundPairs

\* C12 witness: an unknown name reported against a module declaring two
\* named parameters.
C12_Witness ==
    /\ OnModule
    /\ computed.status = "Err"
    /\ \E k \in 1..Len(emitted) :
          /\ emitted[k].msg = "no parameter"
          /\ emitted[k].name = "WIDTH"
          /\ Len(emitted[k].note) = 2

\* The most recent call emitted an error diagnostic that carries a span.
HasSpannedError ==
    \E k \in 1..Len(emitted) : emitted[k].severity = "error" /\ Len(emitted[k].spans) >= 1

\* The most recent compute left an argument unmatched.
SomeUnmatched == OnModule /\ (UnmatchedPos # {} \/ UnmatchedNamed # {})

C14_NonModuleIsFatal ==
    (req # NoSource /\ hir_of(req.module).tag = "Other")
        => /\ computed = Panic
           /\ emitted = <<>>
           /\ envs = <<>>
           /\ earlier = NoCall

\* C14 witness: compute panicked on a request that carries an argument.
C14_Witness ==
    /\ computed = Panic
    /\ hir_of(req.module).tag = "Other"
    /\ Len(req.pos) + Len(req.named) >= 1

\* C15: scope equality is object identity and is stable under mutation: two
\* references are equal exactly when they denote the same object, whatever
\* the tables hold; no operation on any scope removes a member from an
\* imported-scope set, and importing a scope that is already a member leaves
\* the size of the set unchanged, however the member was populated meanwhile.
C15_IdentityStableUnderMutation ==
    [][/\ \A a \in ScopeIds, b \in ScopeIds : ScopeEq(a, b) <=> a = b
       /\ \A s \in ScopeIds :
             scopes[s].imported_scopes \subseteq scopes'[s].imported_scopes
       /\ \A s \in ScopeIds, x \in ScopeIds :
             (import_scope(s, x) /\ x \in scopes[s].imported_scopes)
                => Cardinality(scopes'[s].imported_scopes)
                      = Cardinality(scopes[s].imported_scopes)]_vars

\* C15 witness: a scope was imported by another one and populated afterwards
\* (the last operation is a rejected define on it) and is still a member.
C15_Witness ==
    /\ result = "Err"
    /\ \E s \in ScopeIds, x \in ScopeIds :
          /\ s # x
          /\ x \in scopes[s].imported_scopes
          /\ scopes[s].defs = EmptyTable
          /\ scopes[x].defs # EmptyTable

\* C16: the note define emits at NAMES verbosity is non-functional: from the
\* same scope state, define of the same name and definition with the flag
\* clear returns the same result, leaves the scopes in the same state and
\* emits the same error diagnostics as with the flag set; the run with the
\* flag set emits exactly one more diagnostic, the note, ahead of the rest.
C16_VerbosityNoteNonFunctional ==
    [][\A s \in ScopeIds, name \in Names, span \in Spans, def \in Def2 :
           define(s, name, span, def, TRUE)
           => \E sc \in {scopes'}, r \in {result'}, em \in {emitted'} :
                 /\ Len(em) >= 1
                 /\ em[1] = DefineNote(name, def, span)
                 /\ em[1].severity = "note"
                 /\ ENABLED (/\ define(s, name, span, def, FALSE)
                             /\ scopes' = sc
                             /\ result' = r
                             /\ emitted' = Tail(em)
                             /\ Errors(emitted') = Errors(em))]_vars

\* C16 witness: a rejected redefinition at NAMES verbosity: the note,
\* followed by the error.
C16_Witness ==
    /\ result = "Err"
    /\ Len(emitted) = 2
    /\ emitted[1].severity = "note"
    /\ emitted[2].severity = "error"

\* The scopes other than s are the same objects with the same contents.
OthersUnchanged(s) ==
    /\ Len(scopes') = Len(scopes)
    /\ \A t \in ScopeIds : t # s => scopes'[t] = scopes[t]

\* What each operation leaves alone in its own scope.
DefineFrame(s) ==
    /\ scopes'[s].imported_defs = scopes[s].imported_defs
    /\ scopes'[s].imported_scopes = scopes[s].imported_scopes

ImportDefFrame(s) ==
    /\ scopes'[s].defs = scopes[s].defs
    /\ scopes'[s].imported_scopes = scopes[s].imported_scopes

ImportScopeFrame(s) ==
    /\ scopes'[s].defs = scopes[s].defs
    /\ scopes'[s].imported_defs = scopes[s].imported_defs

ParentsFixed == \A t \in ScopeIds : scopes'[t].parent = scopes[t].parent

\* C17 (as claimed): each operation changes only its own component of its own
\* scope, import_scope does not modify the imported scope, and no operation
\* changes a parent link or a table of another scope.
C17_FrameAsClaimed ==
    [][/\ ParentsFixed
       /\ \A s \in ScopeIds, name \in Names, span \in Spans, def \in Def2 :
             /\ \A verbose \in BOOLEAN :
                   define(s, name, span, def, verbose)
                      => DefineFrame(s) /\ OthersUnchanged(s)
             /\ import_def(s, name, span, def)
                   => ImportDefFrame(s) /\ OthersUnchanged(s)
       /\ \A s \in ScopeIds, scope \in ScopeIds :
             import_scope(s, scope)
                => /\ ImportScopeFrame(s)
                   /\ OthersUnchanged(s)
                   /\ scopes'[scope] = scopes[scope]]_vars

\* C17 (amended): as above, except that import_scope leaves the imported
\* scope unmodified when it is another object than the importing scope; a
\* scope that imports itself changes its own imported-scope set.
C17_Frame ==
    [][/\ ParentsFixed
       /\ \A s \in ScopeIds, name \in Names, span \in Spans, def \in Def2 :
             /\ \A verbose \in BOOLEAN :
                   define(s, name, span, def, verbose)
                      => DefineFrame(s) /\ OthersUnchanged(s)
             /\ import_def(s, name, span, def)
                   => ImportDefFrame(s) /\ OthersUnchanged(s)
       /\ \A s \in ScopeIds, scope \in ScopeIds :
             import_scope(s, scope)
                => /\ ImportScopeFrame(s)
                   /\ OthersUnchanged(s)
                   /\ scope # s => scopes'[scope] = scopes[scope]
                   /\ scope = s =>
                         scopes'[s].imported_scopes
                            = scopes[s].imported_scopes \cup {s}]_vars

\* C17 witness: a scope with a definition and an imported definition has
\* imported its child, and the child is as it was created.
C17_Witness ==
    /\ result = "Ok"
    /\ Len(scopes) = 2
    /\ scopes[2] = new(1)
    /\ scopes[1].defs # EmptyTable
    /\ scopes[1].imported_defs # EmptyTable
    /\ scopes[1].imported_scopes = {2}

\* The arguments of the most recent request bound to parameter p.
ArgsBoundTo(p) == {k \in 1..NumArgs : ParamAt(k) = p}

\* Parameters bound by more than one argument of the most recent request.
BoundTwice == {p \in ParamIds : Cardinality(ArgsBoundTo(p)) >= 2}

\* Every parameter an argument is bound to has an AST node.
BoundParamsDeclared == \A k \in 1..NumArgs : ast_of(ParamAt(k)).tag # "Err"

\* C18: a duplicate binding is not rejected: when every argument is matched
\* and two of them (a positional and a named one, or two named ones) resolve
\* to the same parameter, compute emits no diagnostic and succeeds, and the
\* interned content holds one pair per argument for that parameter, in
\* argument order, none dropped and none replaced.
C18_DuplicateBindingKept ==
    (AllMatched /\ BoundParamsDeclared /\ BoundTwice # {}) =>
        /\ computed.status = "Ok"
        /\ emitted = <<>>
        /\ computed.env \in 1..Len(envs)
        /\ \A p \in BoundTwice :
              ListsInOrder(SelectSeq(envs[computed.env].types
                                        \o envs[computed.env].values,
                                     LAMBDA q : q[1] = p),
                           ArgsBoundTo(p))

\* C18 witness (positional and named): the first parameter is bound by the
\* positional argument and again, to another value, by name.
C18_Witness ==
    /\ AllMatched
    /\ computed.status = "Ok"
    /\ Len(req.pos) = 1
    /\ Len(req.named) = 1
    /\ ParamAt(1) = ParamAt(2)
    /\ AssignAt(1) # AssignAt(2)

\* Two named arguments bound to one parameter, to different values.
C18_TwoNamed ==
    /\ AllMatched
    /\ computed.status = "Ok"
    /\ Len(req.named) = 2
    /\ ParamAt(1) = ParamAt(2)
    /\ AssignAt(1) # AssignAt(2)

\* The table after the step is the table before it, or that table with one
\* entry appended.
AtMostOneInterned ==
    \/ envs' = envs
    \/ /\ Len(envs') = Len(envs) + 1
       /\ SubSeq(envs', 1, Len(envs)) = envs

\* C19: a compute that returns failure (or panics) leaves the intern table
\* unchanged; a compute that returns a handle has emitted no diagnostic and
\* has interned once: the table is unchanged or has one more entry, and the
\* handle denotes an entry of it, the new one if there is one.
C19_InternOnlyOnSuccess ==
    [][/\ computed'.status \in {"Err", "Panic"} => envs' = envs
       /\ computed'.status = "Ok" =>
             /\ emitted' = <<>>
             /\ AtMostOneInterned
             /\ computed'.env \in 1..Len(envs')
             /\ envs' # envs => computed'.env = Len(envs')]_vars

\* C19 witness: after an environment was interned, a compute with an
\* unmatched argument failed with its diagnostic, the table still holding
\* that one environment.
C19_Witness ==
    /\ computed.status = "Err"
    /\ Len(envs) = 1
    /\ Len(envs[1].values) + Len(envs[1].types) >= 1
    /\ Len(Errors(emitted)) >= 1
    /\ Len(req.pos) >= 1
====
